---------------------------- MODULE Spec2Model ----------------------------
(***************************************************************************)
(* nice-table: createTable(items, keys, options) of src/src/index.ts.      *)
(*                                                                         *)
(* A string is a sequence of one-character strings.  The box-drawing       *)
(* glyphs are written as two-letter tokens, each standing for the one      *)
(* character the source uses.  A call is modelled from its arguments       *)
(* (Init) through the width check, the width solver, the optional grow,    *)
(* the post-check and the renderer.                                        *)
(*                                                                         *)
(* The calls modelled have at least one key, a columnSizing of the type    *)
(* ColumnSizing (the default branch of the switch is not reached) and      *)
(* field values that inspect() prints on one line.                         *)
(***************************************************************************)
EXTENDS Integers, Sequences, FiniteSets

VARIABLES
    items,          \* argument: the records, each a function key -> value
    keys,           \* argument: the field names, in column order
    opts,           \* argument: the seven options, defaults filled in
    pc,             \* position in createTable
    columnCount,    \* let columnCount
    columnNames,    \* const columnNames (after the index column is added)
    tableContent,   \* const tableContent (after the index column is added)
    naturalWidths,  \* columnWidths as computed at lines 54-56
    sizedWidths,    \* columnWidths when the switch on columnSizing is left
    shrunk,         \* whether the switch called shrinkColumns
    columnWidths,   \* const columnWidths (mutated in place by shrink/grow)
    overflow,       \* let overflow
    cellLines,      \* per rendered row (header first), per column: const cellLines
    outcome,        \* "none" | "table" | "message" | "tooSmallError" | "internalError"
    output          \* the returned string (table or message text)

vars == <<items, keys, opts, pc, columnCount, columnNames, tableContent,
          naturalWidths, sizedWidths, shrunk, columnWidths, overflow,
          cellLines, outcome, output>>

-----------------------------------------------------------------------------
(* Bounds of the model. *)

MaxCols == 3        \* keys.length ranges over 1..MaxCols
MaxNameLen == 2     \* key names have 0..MaxNameLen characters
MaxRows == 1        \* items.length ranges over 0..MaxRows
MaxStrLen == 5      \* length of the string field value
LoWidth == 4        \* maxWidth ranges over LoWidth..HiWidth
HiWidth == 18
MaxHeaderLen == 4   \* key names of the layout calls have 0..MaxHeaderLen characters

-----------------------------------------------------------------------------
(* Generic helpers on integers and sequences. *)

Max(a, b) == IF a >= b THEN a ELSE b

RECURSIVE SumSeq(_)
SumSeq(s) == IF s = <<>> THEN 0 ELSE Head(s) + SumSeq(Tail(s))

RECURSIVE MaxSeq(_)
MaxSeq(s) == IF Len(s) = 1 THEN s[1] ELSE Max(Head(s), MaxSeq(Tail(s)))

RECURSIVE Concat(_)
Concat(ss) == IF ss = <<>> THEN <<>> ELSE Head(ss) \o Concat(Tail(ss))

Repeat(ch, n) == [i \in 1..n |-> ch]

RECURSIVE Pow2(_)
Pow2(n) == IF n <= 0 THEN 1 ELSE 2 * Pow2(n - 1)

\* Math.floor(a / b) for b > 0
FloorDiv(a, b) == a \div b

-----------------------------------------------------------------------------
(***************************************************************************)
(* JavaScript numbers are IEEE-754 doubles.  shrinkColumns and growColumns *)
(* compute  Math.floor((1 -/+ x / y) * w)  in doubles: the quotient, the   *)
(* sum and the product are each rounded to 53 significant bits (round to   *)
(* nearest, ties to even).  The rounded product differs from the exact     *)
(* rational only by a relative error near 2^-52, so the floor differs from *)
(* the exact floor only when the exact product is an integer m and the     *)
(* rounded product falls just below m.  FloorOfScaled decides that case    *)
(* from the remainders of the roundings, which stay small integers.        *)
(***************************************************************************)

RECURSIVE PowMod2(_, _)
\* 2^t mod k
PowMod2(t, k) == IF t = 0 THEN 1 % k ELSE (2 * PowMod2(t - 1, k)) % k

RECURSIVE LogUp(_, _, _)
LogUp(a, b, e) == IF a >= b * Pow2(e + 1) THEN LogUp(a, b, e + 1) ELSE e

RECURSIVE LogDown(_, _, _)
LogDown(a, b, e) == IF a * Pow2(-e) < b THEN LogDown(a, b, e - 1) ELSE e

\* the binary exponent of a/b: the largest e with 2^e <= a/b  (a, b > 0)
FloorLog2(a, b) == IF a >= b THEN LogUp(a, b, 0) ELSE LogDown(a, b, -1)

\* round to nearest, ties to even: what is added to a value that lies rem
\* above a multiple of unit (odd: that multiple is an odd one)
RoundAdjust(rem, unit, odd) ==
    IF 2 * rem > unit THEN unit - rem
    ELSE IF 2 * rem < unit THEN -rem
    ELSE IF odd THEN rem ELSE -rem

\* Math.floor((1 + sign * (a / b)) * c) in doubles; sign is 1 or -1,
\* a, b, c > 0 and a <= b when sign = -1
FloorOfScaled(sign, a, b, c) ==
    LET num == b + sign * a
        m == (num * c) \div b
    IN  IF (num * c) % b # 0 \/ m = 0 THEN m
        ELSE
        LET eq == FloorLog2(a, b)
            t == 52 - eq
            \* fl(a/b) = (a * 2^t + d1) / (b * 2^t)
            r1 == (a * PowMod2(t, b)) % b
            d1 == RoundAdjust(r1, b, (a * PowMod2(t, 2 * b)) % (2 * b) >= b)
            \* fl(1 +/- fl(a/b)) = (num * 2^t + d) / (b * 2^t)
            sh == FloorLog2(num, b) - eq
            dn == b * Pow2(sh)
            rem == ((num * PowMod2(t, dn) + sign * d1) % dn) \div b
            d2 == IF sh <= 0 THEN 0
                  ELSE RoundAdjust(rem, Pow2(sh),
                         ((num * PowMod2(t, 2 * dn) + sign * d1) % (2 * dn)) \div b
                             >= Pow2(sh))
            d == sign * d1 + b * d2
            \* the doubles just below m are spaced 2^(e - 52) apart
            em == FloorLog2(m, 1)
            e == IF Pow2(em) = m THEN em - 1 ELSE em
            x == e - eq - 1
            lhs == IF x >= 0 THEN c * (-d) ELSE c * (-d) * Pow2(-x)
            rhs == IF x >= 0 THEN b * Pow2(x) ELSE b
        IN  IF d >= 0 THEN m
            ELSE IF lhs > rhs THEN m - 1 ELSE m

-----------------------------------------------------------------------------
(* Strings and the values of the records' fields. *)

Alphabet == <<"a", "b", "c", "d", "e", "f", "g", "h">>

Letter(i) == Alphabet[((i - 1) % Len(Alphabet)) + 1]

\* a key name of len letters: "", "a", "ab", ...
Name(len) == [i \in 1..len |-> Letter(i)]

\* a text of len characters whose every third character is a blank
Text(len) == [i \in 1..len |-> IF i % 3 = 0 THEN " " ELSE Letter(i)]

KeyNames == {Name(l) : l \in 0..MaxNameLen}

NumberValue(n) == [kind |-> "number", num |-> n, str |-> <<>>]
StringValue(s) == [kind |-> "string", num |-> 0, str |-> s]

\* field values: a one-digit number and a string of MaxStrLen characters
Values == {NumberValue(7), StringValue(Text(MaxStrLen))}

DigitChars == <<"0", "1", "2", "3", "4", "5", "6", "7", "8", "9">>

RECURSIVE NumberToString(_)
\* Number.prototype.toString() of a non-negative integer
NumberToString(n) ==
    IF n < 10 THEN <<DigitChars[n + 1]>>
    ELSE NumberToString(n \div 10) \o <<DigitChars[(n % 10) + 1]>>

\* util.inspect(value): a number prints as its digits, a string in single quotes
Inspect(v) ==
    IF v.kind = "number" THEN NumberToString(v.num)
    ELSE <<"'">> \o v.str \o <<"'">>

Range(f) == {f[i] : i \in DOMAIN f}

\* String.prototype.padEnd(width, ' ') and padStart(width, ' ')
PadEnd(s, width) == IF Len(s) >= width THEN s ELSE s \o Repeat(" ", width - Len(s))
PadStart(s, width) == IF Len(s) >= width THEN s ELSE Repeat(" ", width - Len(s)) \o s

RECURSIVE TrimStart(_)
TrimStart(s) == IF s # <<>> /\ Head(s) = " " THEN TrimStart(Tail(s)) ELSE s

RECURSIVE TrimEnd(_)
TrimEnd(s) ==
    IF s # <<>> /\ s[Len(s)] = " " THEN TrimEnd(SubSeq(s, 1, Len(s) - 1)) ELSE s

\* String.prototype.trim()
Trim(s) == TrimEnd(TrimStart(s))

\* cell.slice(0, n) and cell.slice(n) for n >= 0
SliceTo(s, n) == SubSeq(s, 1, IF n < Len(s) THEN n ELSE Len(s))
SliceFrom(s, n) == SubSeq(s, n + 1, Len(s))

RECURSIVE Join(_, _)
\* Array.prototype.join(sep): the empty array joins to the empty string
Join(parts, sep) ==
    IF parts = <<>> THEN <<>>
    ELSE IF Len(parts) = 1 THEN parts[1]
    ELSE parts[1] \o <<sep>> \o Join(Tail(parts), sep)

RECURSIVE Split(_, _)
\* String.prototype.split(sep): the physical lines of an output string
Split(s, sep) ==
    IF \A i \in 1..Len(s) : s[i] # sep THEN <<s>>
    ELSE LET k == CHOOSE i \in 1..Len(s) :
                     s[i] = sep /\ \A j \in 1..(i - 1) : s[j] # sep
         IN  <<SubSeq(s, 1, k - 1)>> \o Split(SubSeq(s, k + 1, Len(s)), sep)

-----------------------------------------------------------------------------
(* The arguments of a call. *)

HorizontalAlignments == {"left", "middle", "right"}
VerticalAlignments == {"top", "middle", "bottom"}
ColumnSizings == {"stretch", "even"}

SeqsUpTo(S, n) == UNION {[1..k -> S] : k \in 1..n}

AllOptions ==
    [maxWidth : LoWidth..HiWidth,
     columnSizing : ColumnSizings,
     horizontalAlignment : HorizontalAlignments,
     verticalAlignment : VerticalAlignments,
     fullWidth : BOOLEAN,
     throwIfTooSmall : BOOLEAN,
     indexColumn : BOOLEAN]

\* the variables a call has not assigned yet
NotStarted ==
    /\ pc = "call"
    /\ columnCount = 0
    /\ columnNames = <<>>
    /\ tableContent = <<>>
    /\ naturalWidths = <<>>
    /\ sizedWidths = <<>>
    /\ shrunk = FALSE
    /\ columnWidths = <<>>
    /\ overflow = 0
    /\ cellLines = <<>>
    /\ outcome = "none"
    /\ output = <<>>

\* every call within the bounds: any keys, records and options
Init ==
    /\ keys \in SeqsUpTo(KeyNames, MaxCols)
    /\ items \in UNION {[1..r -> [Range(keys) -> Values]] : r \in 0..MaxRows}
    /\ opts \in AllOptions
    /\ NotStarted

\* the calls that exercise the width solver: no records, longer key names,
\* the default alignments
LayoutInit ==
    /\ keys \in SeqsUpTo({Name(l) : l \in 0..MaxHeaderLen}, MaxCols)
    /\ items = <<>>
    /\ opts \in {o \in AllOptions : /\ o.horizontalAlignment = "middle"
                                    /\ o.verticalAlignment = "middle"}
    /\ NotStarted

-----------------------------------------------------------------------------
(* Lines 30-38: the column names and the stringified cells. *)

INDEX_NAME == <<"(", "i", "n", "d", "e", "x", ")">>

\* keys.map((key) => key.toString()), with '(index)' unshifted
ColumnNamesOf(ks, indexColumn) ==
    IF indexColumn THEN <<INDEX_NAME>> \o ks ELSE ks

\* items.map((item) => keys.map((key) => inspect(item[key]))), with the
\* zero-based row index unshifted onto every row
TableContentOf(its, ks, indexColumn) ==
    [r \in 1..Len(its) |->
        LET row == [i \in 1..Len(ks) |-> Inspect(its[r][ks[i]])]
        IN  IF indexColumn THEN <<NumberToString(r - 1)>> \o row ELSE row]

ColumnCountOf(ks, indexColumn) == Len(ks) + (IF indexColumn THEN 1 ELSE 0)

\* a width check that is off by one: it forgets the closing border
MinimumWidthWithoutBorder(n) == 4 * n

\* const minimumWidth = 4 * columnCount + 1
MinimumWidth(n) == 4 * n + 1

\* the message of the width check
TooSmallMessage(n, maxWidth) ==
    <<"The table does not fit. The width should be set to at least ">>
    \o NumberToString(4 * n + 1)
    \o <<" (4 * ColumnCount + 1) for this table to fit (received width ">>
    \o NumberToString(maxWidth) \o <<").">>

-----------------------------------------------------------------------------
(* Lines 52-56: the budget and the natural widths. *)

\* a budget that forgets the border closing each row
AvailableColumnWidthWithoutBorder(maxWidth, n) == maxWidth - n

AvailableColumnWidth(maxWidth, n) == maxWidth - n - 1

AverageColumnWidth(maxWidth, n) == FloorDiv(AvailableColumnWidth(maxWidth, n), n)

\* Math.max(columnName.length + 2, ...tableContent.map((row) => row[i].length + 2))
NaturalWidths(names, content) ==
    [i \in 1..Len(names) |->
        MaxSeq(<<Len(names[i]) + 2>> \o [r \in 1..Len(content) |-> Len(content[r][i]) + 2])]

-----------------------------------------------------------------------------
(* shrinkColumns and growColumns. *)

RECURSIVE BigIndices(_, _, _)
\* Array.from({length}, (_, i) => i).filter((i) => columnWidths[i] > minimumWidth)
BigIndices(widths, i, minimumWidth) ==
    IF i > Len(widths) THEN <<>>
    ELSE (IF widths[i] > minimumWidth THEN <<i>> ELSE <<>>)
         \o BigIndices(widths, i + 1, minimumWidth)

RECURSIVE SmallIndices(_, _, _)
\* Array.from({length}, (_, i) => i).filter((i) => columnWidths[i] < minimumWidth)
SmallIndices(widths, i, minimumWidth) ==
    IF i > Len(widths) THEN <<>>
    ELSE (IF widths[i] < minimumWidth THEN <<i>> ELSE <<>>)
         \o SmallIndices(widths, i + 1, minimumWidth)

RECURSIVE SumAt(_, _)
SumAt(widths, idx) == IF idx = <<>> THEN 0 ELSE widths[Head(idx)] + SumAt(widths, Tail(idx))

\* Math.max(minimumWidth, Math.floor(shrinkFactor * currentColumnWidth)) with
\* shrinkFactor = 1 - overflow / denominator  (overflow is the call's argument)
ShrinkFixedWidth(current, minimumWidth, overflow0, denominator) ==
    IF overflow0 > denominator THEN minimumWidth
    ELSE Max(minimumWidth, FloorOfScaled(-1, overflow0, denominator, current))

RECURSIVE ShrinkLoop(_, _, _, _, _, _)
\* the for loop over bigColumnIndices.slice(0, -1), then the last big column
ShrinkLoop(widths, idx, minimumWidth, overflow0, denominator, ovf) ==
    IF Len(idx) = 1 THEN [widths EXCEPT ![idx[1]] = @ - ovf]
    ELSE LET columnIndex == Head(idx)
             currentColumnWidth == widths[columnIndex]
             fixedWidth == ShrinkFixedWidth(currentColumnWidth, minimumWidth,
                                            overflow0, denominator)
             widthReduction == currentColumnWidth - fixedWidth
         IN  ShrinkLoop([widths EXCEPT ![columnIndex] = fixedWidth], Tail(idx),
                        minimumWidth, overflow0, denominator, ovf - widthReduction)

\* shrinkColumns(columnWidths, minimumWidth, overflow): the widths it leaves.
\* Without a big column the last assignment writes columnWidths[undefined]
\* and the array is unchanged.
ShrinkColumns(widths, minimumWidth, ovf) ==
    LET bigColumnIndices == BigIndices(widths, 1, minimumWidth)
        bigColumnsWidth == SumAt(widths, bigColumnIndices)
        denominator == bigColumnsWidth - Len(bigColumnIndices) * minimumWidth
    IN  IF bigColumnIndices = <<>> THEN widths
        ELSE ShrinkLoop(widths, bigColumnIndices, minimumWidth, ovf, denominator, ovf)

\* Math.floor(growFactor * currentColumnWidth) with
\* growFactor = 1 + growth / smallColumnsWidth  (growth is the call's argument)
GrowFixedWidth(current, growth0, smallColumnsWidth) ==
    FloorOfScaled(1, growth0, smallColumnsWidth, current)

RECURSIVE GrowLoop(_, _, _, _, _)
\* the for loop over smallColumnIndices.slice(0, -1), then the last small column
GrowLoop(widths, idx, growth0, smallColumnsWidth, growth) ==
    IF Len(idx) = 1 THEN [widths EXCEPT ![idx[1]] = @ + growth]
    ELSE LET columnIndex == Head(idx)
             currentColumnWidth == widths[columnIndex]
             fixedWidth == GrowFixedWidth(currentColumnWidth, growth0, smallColumnsWidth)
             widthGrowth == fixedWidth - currentColumnWidth
         IN  GrowLoop([widths EXCEPT ![columnIndex] = fixedWidth], Tail(idx),
                      growth0, smallColumnsWidth, growth - widthGrowth)

\* growColumns(columnWidths, minimumWidth, growth): the widths it leaves.
\* Without a small column growFactor is Infinity, the loop is empty and the
\* last assignment writes columnWidths[undefined]: the array is unchanged.
GrowColumns(widths, minimumWidth, growth) ==
    LET smallColumnIndices == SmallIndices(widths, 1, minimumWidth)
        smallColumnsWidth == SumAt(widths, smallColumnIndices)
    IN  IF smallColumnIndices = <<>> THEN widths
        ELSE GrowLoop(widths, smallColumnIndices, growth, smallColumnsWidth, growth)

-----------------------------------------------------------------------------
(* The renderer.  Each glyph token stands for one character. *)

TOP_LEFT == "tl"
TOP_RIGHT == "tr"
TOP_MIDDLE == "tm"
BOTTOM_LEFT == "bl"
BOTTOM_RIGHT == "br"
BOTTOM_MIDDLE == "bm"
LEFT_MIDDLE == "lm"
RIGHT_MIDDLE == "rm"
MIDDLE == "mm"
HORIZONTAL == "hh"
VERTICAL == "vv"
NEWLINE == "\n"

\* columnWidths.map((size) => HORIZONTAL.repeat(size)).join(junction)
HorizontalRuns(widths, junction) ==
    Join([i \in 1..Len(widths) |-> Repeat(HORIZONTAL, widths[i])], junction)

createTableTop(widths) == <<TOP_LEFT>> \o HorizontalRuns(widths, TOP_MIDDLE) \o <<TOP_RIGHT>>

createTableMiddleLine(widths) ==
    <<LEFT_MIDDLE>> \o HorizontalRuns(widths, MIDDLE) \o <<RIGHT_MIDDLE>>

createTableBottom(widths) ==
    <<BOTTOM_LEFT>> \o HorizontalRuns(widths, BOTTOM_MIDDLE) \o <<BOTTOM_RIGHT>>

\* centerText(text, width); the text is never longer than the width here, so
\* the padding is never negative
centerText(text, width) ==
    LET trimmed == Trim(text)
        padding == FloorDiv(width - Len(trimmed), 2)
    IN  PadEnd(Repeat(" ", padding) \o trimmed, width)

createRow(cells, widths, horizontalAlignment) ==
    <<VERTICAL>>
    \o Join([i \in 1..Len(widths) |->
                IF horizontalAlignment = "left" THEN PadEnd(<<" ">> \o cells[i], widths[i])
                ELSE IF horizontalAlignment = "right"
                     THEN PadStart(cells[i] \o <<" ">>, widths[i])
                ELSE centerText(cells[i], widths[i])],
            VERTICAL)
    \o <<VERTICAL>>

RECURSIVE cellLinesOfUnpadded(_, _)
\* a wrap that forgets the two padding characters when it cuts a line
cellLinesOfUnpadded(cell, columnWidth) ==
    IF Len(cell) = 0 THEN <<>>
    ELSE <<SliceTo(cell, columnWidth)>>
         \o cellLinesOfUnpadded(SliceFrom(cell, columnWidth), columnWidth)

RECURSIVE cellLinesOf(_, _)
\* the while loop of createMultiLineRows: the lines one cell is split into
\* (columnWidth >= 3 whenever the renderer runs)
cellLinesOf(cell, columnWidth) ==
    IF Len(cell) = 0 THEN <<>>
    ELSE <<SliceTo(cell, columnWidth - 2)>>
         \o cellLinesOf(SliceFrom(cell, columnWidth - 2), columnWidth)

\* the first loop of createMultiLineRows: every cell's lines
splitCells(row, widths) == [i \in 1..Len(widths) |-> cellLinesOf(row[i], widths[i])]

\* rowHeight = Math.max(rowHeight, cellLines.length), from 0
rowHeightOf(cells) == MaxSeq(<<0>> \o [i \in 1..Len(cells) |-> Len(cells[i])])

\* the empty lines unshifted onto a cell's lines
verticalPadding(verticalAlignment, rowHeight, lineCount) ==
    IF verticalAlignment = "top" THEN 0
    ELSE IF verticalAlignment = "middle" THEN FloorDiv(rowHeight - lineCount, 2)
    ELSE rowHeight - lineCount

alignCells(cells, rowHeight, verticalAlignment) ==
    [i \in 1..Len(cells) |->
        Repeat(<<>>, verticalPadding(verticalAlignment, rowHeight, Len(cells[i])))
        \o cells[i]]

\* cellRows.push(cells.map((cell) => cell[i] ?? ''))
cellRowsOf(cells, rowHeight) ==
    [k \in 1..rowHeight |->
        [i \in 1..Len(cells) |-> IF k <= Len(cells[i]) THEN cells[i][k] ELSE <<>>]]

createMultiLineRows(row, widths, horizontalAlignment, verticalAlignment) ==
    LET split == splitCells(row, widths)
        rowHeight == rowHeightOf(split)
        cells == alignCells(split, rowHeight, verticalAlignment)
        cellRows == cellRowsOf(cells, rowHeight)
    IN  Join([k \in 1..Len(cellRows) |-> createRow(cellRows[k], widths, horizontalAlignment)],
             NEWLINE)

createTableRows(content, widths, horizontalAlignment, verticalAlignment) ==
    Join([r \in 1..Len(content) |->
             createMultiLineRows(content[r], widths, horizontalAlignment, verticalAlignment)],
         NEWLINE)

createTableColumnNames(names, widths, horizontalAlignment, verticalAlignment) ==
    createMultiLineRows(names, widths, horizontalAlignment, verticalAlignment)
    \o <<NEWLINE>> \o createTableMiddleLine(widths)

\* lines 97-102: the four blocks joined by line breaks
TableText(names, content, widths, horizontalAlignment, verticalAlignment) ==
    Join(<<createTableTop(widths),
           createTableColumnNames(names, widths, horizontalAlignment, verticalAlignment),
           createTableRows(content, widths, horizontalAlignment, verticalAlignment),
           createTableBottom(widths)>>,
         NEWLINE)

-----------------------------------------------------------------------------
(* createTable, step by step. *)

N == ColumnCountOf(keys, opts.indexColumn)

Prepared ==
    /\ columnCount' = N
    /\ columnNames' = ColumnNamesOf(keys, opts.indexColumn)
    /\ tableContent' = TableContentOf(items, keys, opts.indexColumn)

\* lines 30-46: the width check fails and throws the message
TooSmallThrow ==
    /\ pc = "call"
    /\ opts.maxWidth < MinimumWidth(N)
    /\ opts.throwIfTooSmall
    /\ Prepared
    /\ outcome' = "tooSmallError"
    /\ output' = TooSmallMessage(N, opts.maxWidth)
    /\ pc' = "done"
    /\ UNCHANGED <<items, keys, opts, naturalWidths, sizedWidths, shrunk,
                   columnWidths, overflow, cellLines>>

\* lines 30-48: the width check fails and returns the message
TooSmallReturn ==
    /\ pc = "call"
    /\ opts.maxWidth < MinimumWidth(N)
    /\ ~opts.throwIfTooSmall
    /\ Prepared
    /\ outcome' = "message"
    /\ output' = TooSmallMessage(N, opts.maxWidth)
    /\ pc' = "done"
    /\ UNCHANGED <<items, keys, opts, naturalWidths, sizedWidths, shrunk,
                   columnWidths, overflow, cellLines>>

\* lines 30-66: the width check passes; case 'stretch'
SolveStretch ==
    /\ pc = "call"
    /\ opts.maxWidth >= MinimumWidth(N)
    /\ opts.columnSizing = "stretch"
    /\ Prepared
    /\ LET availableColumnWidth == AvailableColumnWidth(opts.maxWidth, N)
           averageColumnWidth == AverageColumnWidth(opts.maxWidth, N)
           widths == NaturalWidths(columnNames', tableContent')
           ovf == SumSeq(widths) - availableColumnWidth
       IN  /\ naturalWidths' = widths
           /\ shrunk' = (ovf > 0)
           /\ columnWidths' = IF ovf > 0
                              THEN ShrinkColumns(widths, averageColumnWidth, ovf)
                              ELSE widths
           /\ overflow' = IF ovf > 0 THEN 0 ELSE ovf
    /\ sizedWidths' = columnWidths'
    /\ pc' = "sized"
    /\ UNCHANGED <<items, keys, opts, cellLines, outcome, output>>

\* lines 30-79: the width check passes; case 'even'
SolveEven ==
    /\ pc = "call"
    /\ opts.maxWidth >= MinimumWidth(N)
    /\ opts.columnSizing = "even"
    /\ Prepared
    /\ LET availableColumnWidth == AvailableColumnWidth(opts.maxWidth, N)
           averageColumnWidth == AverageColumnWidth(opts.maxWidth, N)
           widths == NaturalWidths(columnNames', tableContent')
           maxColumnWidth == MaxSeq(widths)
           evened == [i \in 1..Len(widths) |-> maxColumnWidth]
           ovf == maxColumnWidth * N - availableColumnWidth
       IN  /\ naturalWidths' = widths
           /\ shrunk' = (ovf > 0)
           /\ columnWidths' = IF ovf > 0
                              THEN ShrinkColumns(evened, averageColumnWidth, ovf)
                              ELSE evened
           /\ overflow' = IF ovf > 0 THEN 0 ELSE ovf
    /\ sizedWidths' = columnWidths'
    /\ pc' = "sized"
    /\ UNCHANGED <<items, keys, opts, cellLines, outcome, output>>

\* lines 84-87: fullWidth && overflow < 0
Grow ==
    /\ pc = "sized"
    /\ opts.fullWidth /\ overflow < 0
    /\ columnWidths' = GrowColumns(columnWidths,
                                   AverageColumnWidth(opts.maxWidth, columnCount),
                                   -overflow)
    /\ overflow' = 0
    /\ pc' = "grown"
    /\ UNCHANGED <<items, keys, opts, columnCount, columnNames, tableContent,
                   naturalWidths, sizedWidths, shrunk, cellLines, outcome, output>>

\* line 84: the condition is false
SkipGrow ==
    /\ pc = "sized"
    /\ ~(opts.fullWidth /\ overflow < 0)
    /\ pc' = "grown"
    /\ UNCHANGED <<items, keys, opts, columnCount, columnNames, tableContent,
                   naturalWidths, sizedWidths, shrunk, columnWidths, overflow,
                   cellLines, outcome, output>>

\* lines 89-95: a column narrower than 3 throws the internal error
PostCheckThrow ==
    /\ pc = "grown"
    /\ \E i \in 1..Len(columnWidths) : columnWidths[i] < 3
    /\ outcome' = "internalError"
    /\ pc' = "done"
    /\ UNCHANGED <<items, keys, opts, columnCount, columnNames, tableContent,
                   naturalWidths, sizedWidths, shrunk, columnWidths, overflow,
                   cellLines, output>>

\* lines 89-102: the post-check passes and the table is rendered
Render ==
    /\ pc = "grown"
    /\ \A i \in 1..Len(columnWidths) : columnWidths[i] >= 3
    /\ outcome' = "table"
    /\ cellLines' = [r \in 1..(Len(tableContent) + 1) |->
                        splitCells(IF r = 1 THEN columnNames ELSE tableContent[r - 1],
                                   columnWidths)]
    /\ output' = TableText(columnNames, tableContent, columnWidths,
                           opts.horizontalAlignment, opts.verticalAlignment)
    /\ pc' = "done"
    /\ UNCHANGED <<items, keys, opts, columnCount, columnNames, tableContent,
                   naturalWidths, sizedWidths, shrunk, columnWidths, overflow>>

Next ==
    \/ TooSmallThrow
    \/ TooSmallReturn
    \/ SolveStretch
    \/ SolveEven
    \/ Grow
    \/ SkipGrow
    \/ PostCheckThrow
    \/ Render

Spec == Init /\ [][Next]_vars

LayoutSpec == LayoutInit /\ [][Next]_vars

-----------------------------------------------------------------------------
(* The properties. *)

Returned == outcome = "table"

Lines == Split(output, NEWLINE)

KeyCount == Len(keys) + (IF opts.indexColumn THEN 1 ELSE 0)

Budget == opts.maxWidth - KeyCount - 1

\* the text of the cell in rendered row r (the header is row 1), column i
CellText(r, i) == IF r = 1 THEN columnNames[i] ELSE tableContent[r - 1][i]

\* C1: a returned table's final widths satisfy sum + n + 1 <= maxWidth, and no
\* emitted line is longer than maxWidth
C1_WithinMaxWidth ==
    Returned =>
        /\ SumSeq(columnWidths) + KeyCount + 1 <= opts.maxWidth
        /\ \A k \in 1..Len(Lines) : Len(Lines[k]) <= opts.maxWidth

\* C1 witness: a table was returned whose natural widths overflowed the budget
\* and were shrunk under 'stretch'
C1_Witness ==
    /\ Returned
    /\ shrunk
    /\ opts.columnSizing = "stretch"
    /\ SumSeq(naturalWidths) > Budget
    /\ Len(columnWidths) >= 3

\* C2: with fullWidth a returned table fills the budget exactly:
\* sum + n + 1 = maxWidth
C2_FullWidthFills ==
    (Returned /\ opts.fullWidth) =>
        SumSeq(columnWidths) + KeyCount + 1 = opts.maxWidth

\* C3: every physical line of a returned table has the length
\* 1 + sum(final widths) + columnCount
C3_LinesSameLength ==
    Returned =>
        \A k \in 1..Len(Lines) : Len(Lines[k]) = 1 + SumSeq(columnWidths) + KeyCount

\* C4: with n the number of keys plus the index column, maxWidth < 4n + 1 never
\* gives a table: the message is thrown when throwIfTooSmall and returned
\* otherwise; maxWidth >= 4n + 1 never gives the width-check failure
C4_WidthCheck ==
    pc # "call" =>
        IF opts.maxWidth < 4 * KeyCount + 1
        THEN /\ outcome = (IF opts.throwIfTooSmall THEN "tooSmallError" ELSE "message")
             /\ output = TooSmallMessage(KeyCount, opts.maxWidth)
        ELSE outcome \notin {"tooSmallError", "message"}

\* C4 witness: maxWidth one below the minimum of a table with an index column;
\* the message was returned as text
C4_Witness ==
    /\ opts.indexColumn
    /\ opts.maxWidth = 4 * (Len(keys) + 1)
    /\ outcome = "message"

\* C5: when maxWidth = 4 * columnCount + 1 the call returns a table whose
\* widths are all 3
C5_BoundaryWidths ==
    (pc = "done" /\ opts.maxWidth = 4 * KeyCount + 1) =>
        /\ Returned
        /\ \A i \in 1..Len(columnWidths) : columnWidths[i] = 3

\* C6: after the width check has passed every final width is >= 3 and the
\* internal error is never raised
C6_NoInternalError ==
    (pc = "done" /\ opts.maxWidth >= 4 * KeyCount + 1) =>
        /\ outcome # "internalError"
        /\ \A i \in 1..Len(columnWidths) : columnWidths[i] >= 3

\* C7: under 'even', when the equalized widths fit the budget, the final widths
\* of the returned table are all equal
C7_EvenEqual ==
    (/\ Returned
     /\ opts.columnSizing = "even"
     /\ KeyCount * MaxSeq(naturalWidths) <= Budget) =>
        \A i, j \in 1..Len(columnWidths) : columnWidths[i] = columnWidths[j]

\* C8: an empty cell wraps to the one line "", so every rendered row, the
\* header included, has height >= 1
C8_RowHeight ==
    Returned =>
        \A r \in 1..Len(cellLines) :
            /\ \A i \in 1..Len(cellLines[r]) :
                   CellText(r, i) = <<>> => cellLines[r][i] = << <<>> >>
            /\ rowHeightOf(cellLines[r]) >= 1

\* C9: the lines of a wrapped cell concatenate to the cell's text, none is
\* longer than w - 2 and all but the last are exactly w - 2 long
C9_WrapLossless ==
    Returned =>
        \A r \in 1..Len(cellLines) : \A i \in 1..Len(cellLines[r]) :
            LET wrapped == cellLines[r][i]
                inner == columnWidths[i] - 2
            IN  /\ Concat(wrapped) = CellText(r, i)
                /\ \A k \in 1..Len(wrapped) :
                       /\ Len(wrapped[k]) <= inner
                       /\ k < Len(wrapped) => Len(wrapped[k]) = inner

\* C9 witness: a cell was wrapped into several lines, the last one shorter than
\* the others
C9_Witness ==
    /\ Returned
    /\ \E r \in 1..Len(cellLines) : \E i \in 1..Len(cellLines[r]) :
           LET wrapped == cellLines[r][i]
           IN  /\ Len(wrapped) >= 2
               /\ Len(wrapped[1]) >= 2
               /\ Len(wrapped[Len(wrapped)]) < Len(wrapped[1])

\* C10: when shrinkColumns has run under 'stretch', no column of the returned
\* table left the shrink wider than its natural width, and a column not above
\* the average width was left unchanged
C10_ShrinkNeverWidens ==
    (Returned /\ shrunk /\ opts.columnSizing = "stretch") =>
        \A i \in 1..Len(sizedWidths) :
            /\ sizedWidths[i] <= naturalWidths[i]
            /\ naturalWidths[i] <= AverageColumnWidth(opts.maxWidth, columnCount) =>
                   sizedWidths[i] = naturalWidths[i]

=============================================================================
